---- MODULE Spec2Model ----
(***************************************************************************)
(* Model of nodes.py of ComfyUI-ParamNodes: the scalar parameter nodes     *)
(* (get_value), the model switch (switch) and the image path node          *)
(* (load_image).  The nodes keep no fields; the state is the host          *)
(* environment load_image reads (folder_paths.base_path and the file       *)
(* system) and an observation of the latest call: its arguments, the paths *)
(* it handed to os.path.exists and Image.open, and what it returned or     *)
(* raised.  A second observation, saved, keeps one earlier call together   *)
(* with the environment it ran in, for comparing later calls with it.      *)
(*                                                                         *)
(* Numbers.  An 8-bit sample s becomes the float s / 255.0.  Floats are    *)
(* kept in fixed point with unit One = 255, so that every value the code   *)
(* computes (s / 255.0, 1.0 - s / 255.0, 0.0) is exact.                    *)
(* Tensors are records [shape, data]: shape as torch reports it, data the  *)
(* nested sequences, outermost dimension first.                            *)
(***************************************************************************)
EXTENDS Integers, Sequences, FiniteSets, TLC

\* ---------------------------------------------------------------- bounds
\* Largest height and width of a frame on disk.
MaxDim == 2
\* Largest number of frames of an image file on disk.
MaxFrames == 2

\* ------------------------------------------------------ program constants
\* nodes.py:159 and 163, the divisor of .astype(np.float32) / 255.0
SampleMax == 255
\* nodes.py:166, torch.zeros((64, 64))
DefaultMaskSize == 64
\* fixed-point unit of a float: 1.0
One == SampleMax

VARIABLES base_path, files, last, saved

vars == <<base_path, files, last, saved>>

\* ----------------------------------------------------------------- paths
\* A path is the sequence of its components; an absolute path starts with
\* the root "/".
isabs(p) == Len(p) > 0 /\ p[1] = "/"

\* os.path.join(a, b): an absolute b discards a.
join(a, b) == IF isabs(b) THEN b ELSE a \o b

\* The base directories the host may run from.
Bases == {<<"/", "comfy">>, <<"/", "srv">>}

\* The image_path inputs: one relative, one absolute that is also what the
\* relative one resolves to under the first base, one absolute elsewhere.
InputPaths ==
    { <<"input", "a.png">>,
      <<"/", "comfy", "input", "a.png">>,
      <<"/", "data", "a.png">> }

\* The places of the file system a file can be put at.
DiskPaths ==
    { <<"/", "comfy", "input", "a.png">>,
      <<"/", "srv", "input", "a.png">>,
      <<"/", "data", "a.png">> }

\* ---------------------------------------------------------------- images
Modes == {"L", "LA", "RGB", "RGBA"}

\* PIL's Image.getbands()
getbands(mode) ==
    CASE mode = "L"    -> <<"L">>
      [] mode = "LA"   -> <<"L", "A">>
      [] mode = "RGB"  -> <<"R", "G", "B">>
      [] mode = "RGBA" -> <<"R", "G", "B", "A">>

\* EXIF orientation tag values
Orientations == 1..8

\* Sample values written into the files on disk: both ends of the 8-bit
\* range and values next to them.
Levels == <<255, 64, 127, 1, 254, 0>>

Sample(r, c, b) == Levels[((3 * r + 5 * c + b) % Len(Levels)) + 1]

\* A frame as stored: mode, EXIF orientation, and h rows of w pixels, a
\* pixel being one 8-bit sample per band.
MkFrame(mode, h, w, exif) ==
    [ mode |-> mode,
      exif |-> exif,
      px   |-> [r \in 1..h |-> [c \in 1..w |->
                 [b \in 1..Len(getbands(mode)) |-> Sample(r, c, b)]]] ]

Height(px) == Len(px)
Width(px) == Len(px[1])

Frames ==
    { MkFrame(m, h, w, o) : m \in Modes, h \in 1..MaxDim, w \in 1..MaxDim,
                            o \in Orientations }

\* The frames multi-frame files are built from, all stored 1 x 2: opaque and
\* with alpha, each also mirrored or rotated in place (same size, other
\* pixel order), and one that changes size when its orientation is applied.
SeqFrames ==
    { MkFrame("RGB", 1, 2, 1), MkFrame("RGB", 1, 2, 2),
      MkFrame("RGBA", 1, 2, 1), MkFrame("RGBA", 1, 2, 3),
      MkFrame("RGBA", 1, 2, 6) }

RECURSIVE SeqsOf(_, _)
SeqsOf(S, n) ==
    IF n = 0 THEN { <<>> }
    ELSE { Append(s, x) : s \in SeqsOf(S, n - 1), x \in S }

\* What a path can hold: nothing, bytes no decoder accepts, or an image
\* file of one or more frames.
NoFile == [kind |-> "absent", frames |-> <<>>]
Corrupt == [kind |-> "corrupt", frames |-> <<>>]
ImageFile(fs) == [kind |-> "image", frames |-> fs]

SingleFiles == { ImageFile(<<f>>) : f \in Frames }
MultiFiles ==
    UNION { { ImageFile(s) : s \in SeqsOf(SeqFrames, n) } : n \in 2..MaxFrames }
FileCatalogue == SingleFiles \cup MultiFiles \cup {Corrupt}

\* os.path.exists
exists(p) == p \in DOMAIN files /\ files[p].kind # "absent"

\* --------------------------------------------------------------- Pillow
\* ImageOps.exif_transpose: the pixels moved as the orientation tag says
\* (2 mirror, 3 rotate 180, 4 flip, 5 transpose, 6 rotate 270, 7 transverse,
\* 8 rotate 90), the tag removed.  5..8 swap height and width.
exif_transpose(i) ==
    LET m == i.px
        H == Height(m)
        W == Width(m)
        o == i.exif
        swap == o \in 5..8
        h2 == IF swap THEN W ELSE H
        w2 == IF swap THEN H ELSE W
        At(r, c) ==
            CASE o = 1 -> m[r][c]
              [] o = 2 -> m[r][W + 1 - c]
              [] o = 3 -> m[H + 1 - r][W + 1 - c]
              [] o = 4 -> m[H + 1 - r][c]
              [] o = 5 -> m[c][r]
              [] o = 6 -> m[H + 1 - c][r]
              [] o = 7 -> m[H + 1 - c][W + 1 - r]
              [] o = 8 -> m[c][W + 1 - r]
    IN  [ mode |-> i.mode,
          exif |-> 1,
          px   |-> [r \in 1..h2 |-> [c \in 1..w2 |-> At(r, c)]] ]

\* Image.convert("RGB"): grey is copied to the three channels, alpha is
\* dropped.
convert_RGB(i) ==
    LET To3(p) ==
            IF i.mode \in {"L", "LA"} THEN <<p[1], p[1], p[1]>>
            ELSE <<p[1], p[2], p[3]>>
    IN  [ mode |-> "RGB",
          exif |-> i.exif,
          px   |-> [r \in 1..Height(i.px) |-> [c \in 1..Width(i.px) |->
                     To3(i.px[r][c])]] ]

\* Image.getchannel('A'): the alpha samples, one per pixel.
getchannel_A(i) ==
    LET k == CHOOSE n \in 1..Len(getbands(i.mode)) : getbands(i.mode)[n] = "A"
    IN  [r \in 1..Height(i.px) |-> [c \in 1..Width(i.px) |-> i.px[r][c][k]]]

HasAlpha(i) == \E n \in 1..Len(getbands(i.mode)) : getbands(i.mode)[n] = "A"

\* ---------------------------------------------------------- numpy, torch
\* .astype(np.float32) / 255.0 of one sample
ToFloat(s) == (s * One) \div SampleMax

\* np.array(image).astype(np.float32) / 255.0 of an RGB image: (H, W, 3)
ImageArray(rgb) ==
    [ shape |-> <<Height(rgb.px), Width(rgb.px), 3>>,
      data  |-> [r \in 1..Height(rgb.px) |-> [c \in 1..Width(rgb.px) |->
                  [k \in 1..3 |-> ToFloat(rgb.px[r][c][k])]]] ]

\* As AlphaMask, the subtraction from 1.0 forgotten.
AlphaMask_uninverted(a) ==
    [ shape |-> <<Len(a), Len(a[1])>>,
      data  |-> [r \in 1..Len(a) |-> [c \in 1..Len(a[1]) |-> ToFloat(a[r][c])]] ]

\* 1.0 - np.array(alpha).astype(np.float32) / 255.0: (H, W)
AlphaMask(a) ==
    [ shape |-> <<Len(a), Len(a[1])>>,
      data  |-> [r \in 1..Len(a) |-> [c \in 1..Len(a[1]) |->
                  One - ToFloat(a[r][c])]] ]

\* torch.zeros((h, w))
zeros(h, w) ==
    [ shape |-> <<h, w>>,
      data  |-> [r \in 1..h |-> [c \in 1..w |-> 0]] ]

\* As unsqueeze, the leading dimension not added.
unsqueeze_noop(t) == t

\* t[None,] and t.unsqueeze(0): a new leading dimension of size 1
unsqueeze(t) == [shape |-> <<1>> \o t.shape, data |-> <<t.data>>]

RECURSIVE ConcatData(_)
ConcatData(ts) ==
    IF ts = <<>> THEN <<>> ELSE Head(ts).data \o ConcatData(Tail(ts))

\* torch.cat(ts, dim=0) accepts tensors that agree in every dimension but
\* the first.
CatOK(ts) == \A k \in 1..Len(ts) : Tail(ts[k].shape) = Tail(ts[1].shape)

cat(ts) ==
    LET data == ConcatData(ts)
    IN  [shape |-> <<Len(data)>> \o Tail(ts[1].shape), data |-> data]

\* -------------------------------------------------------------- outcomes
Returned(v) == [ok |-> TRUE, value |-> v, error |-> "", message |-> <<>>]
Raised(e, msg) == [ok |-> FALSE, value |-> <<>>, error |-> e, message |-> msg]

\* ------------------------------------------------------------- the nodes
ParamString_get_value(value) == Returned(<<value>>)
ParamInt_get_value(value) == Returned(<<value>>)
\* As ParamFloat_get_value, the value clamped to the declared range.
ParamFloat_get_value_clamped(value) ==
    Returned(<< IF value < 0 - 10000 THEN 0 - 10000
                ELSE IF value > 10000 THEN 10000 ELSE value >>)

ParamFloat_get_value(value) == Returned(<<value>>)
ParamBoolean_get_value(value) == Returned(<<value>>)
ParamUniversal_get_value(value) == Returned(<<value>>)

\* The host calls the method the node's FUNCTION attribute names.
get_value(node, value) ==
    CASE node = "ParamString"    -> ParamString_get_value(value)
      [] node = "ParamInt"       -> ParamInt_get_value(value)
      [] node = "ParamFloat"     -> ParamFloat_get_value(value)
      [] node = "ParamBoolean"   -> ParamBoolean_get_value(value)
      [] node = "ParamUniversal" -> ParamUniversal_get_value(value)

\* As switch, the two branches exchanged.
switch_swapped(model_a, model_b, select_b) ==
    IF select_b THEN Returned(<<model_a>>) ELSE Returned(<<model_b>>)

\* HelperModelSwitch.switch
switch(model_a, model_b, select_b) ==
    IF select_b THEN Returned(<<model_b>>) ELSE Returned(<<model_a>>)

\* As resolve, a relative path left as given.
resolve_as_given(image_path) == image_path

\* The path load_image works on after its first statement.
resolve(image_path) ==
    IF ~isabs(image_path) THEN join(base_path, image_path) ELSE image_path

\* One pass of the loop body over a frame: the image (1, H, W, 3) and the
\* mask (1, h, w) it appends.
FrameImage(frame) ==
    LET i == exif_transpose(frame)
    IN  unsqueeze(ImageArray(convert_RGB(i)))

\* As FrameMask, the default mask sized like the frame.
FrameMask_image_sized(frame) ==
    LET i == exif_transpose(frame)
        mask == IF HasAlpha(i) THEN AlphaMask(getchannel_A(i))
                ELSE zeros(Height(i.px), Width(i.px))
    IN  unsqueeze(mask)

FrameMask(frame) ==
    LET i == exif_transpose(frame)
        mask == IF HasAlpha(i) THEN AlphaMask(getchannel_A(i))
                ELSE zeros(DefaultMaskSize, DefaultMaskSize)
    IN  unsqueeze(mask)

\* As Iterate, each frame put at the front of the lists.
RECURSIVE Iterate_prepend(_, _, _)
Iterate_prepend(frames, output_images, output_masks) ==
    IF frames = <<>> THEN [images |-> output_images, masks |-> output_masks]
    ELSE Iterate_prepend(Tail(frames),
                         <<FrameImage(Head(frames))>> \o output_images,
                         <<FrameMask(Head(frames))>> \o output_masks)

\* The loop over ImageSequence.Iterator(img): the two lists it leaves.
RECURSIVE Iterate(_, _, _)
Iterate(frames, output_images, output_masks) ==
    IF frames = <<>> THEN [images |-> output_images, masks |-> output_masks]
    ELSE Iterate(Tail(frames),
                 Append(output_images, FrameImage(Head(frames))),
                 Append(output_masks, FrameMask(Head(frames))))

\* The statements after the loop.
Stack(output_images, output_masks) ==
    IF Len(output_images) > 1
    THEN IF CatOK(output_images) /\ CatOK(output_masks)
         THEN Returned(<<cat(output_images), cat(output_masks)>>)
         ELSE Raised("RuntimeError", <<>>)
    ELSE Returned(<<output_images[1], output_masks[1]>>)

NotFoundMessage(path) == <<"Image not found at path: ">> \o path

\* As load_image, without the os.path.exists test: Image.open is tried on
\* the missing path and raises.
load_image_unchecked(image_path) ==
    LET path == resolve(image_path)
        img == IF path \in DOMAIN files THEN files[path] ELSE NoFile
    IN  IF img.kind = "absent"
        THEN [ checked |-> path, opened |-> <<path>>,
               result |-> Raised("FileNotFoundError", NotFoundMessage(path)) ]
        ELSE IF img.kind # "image"
        THEN [ checked |-> path, opened |-> <<path>>,
               result |-> Raised("UnidentifiedImageError", <<>>) ]
        ELSE LET out == Iterate(img.frames, <<>>, <<>>)
             IN  [ checked |-> path, opened |-> <<path>>,
                   result |-> Stack(out.images, out.masks) ]

\* As load_image, with the outcome kept per input path in a field of the
\* node and returned again while the same path is asked for.
load_image_stale(image_path) ==
    LET path == resolve(image_path)
    IN  IF last.op = "load_image" /\ last.args = <<image_path>>
        THEN [checked |-> last.checked, opened |-> last.opened,
              result |-> last.result]
        ELSE IF ~exists(path)
        THEN [ checked |-> path, opened |-> <<>>,
               result |-> Raised("FileNotFoundError", NotFoundMessage(path)) ]
        ELSE LET img == files[path]
             IN  IF img.kind # "image"
                 THEN [ checked |-> path, opened |-> <<path>>,
                        result |-> Raised("UnidentifiedImageError", <<>>) ]
                 ELSE LET out == Iterate(img.frames, <<>>, <<>>)
                      IN  [ checked |-> path, opened |-> <<path>>,
                            result |-> Stack(out.images, out.masks) ]

\* ParamImage.load_image: the path given to os.path.exists, the paths
\* given to Image.open, and the outcome.
load_image(image_path) ==
    LET path == resolve(image_path)
    IN  IF ~exists(path)
        THEN [ checked |-> path, opened |-> <<>>,
               result |-> Raised("FileNotFoundError", NotFoundMessage(path)) ]
        ELSE LET img == files[path]
             IN  IF img.kind # "image"
                 THEN [ checked |-> path, opened |-> <<path>>,
                        result |-> Raised("UnidentifiedImageError", <<>>) ]
                 ELSE LET out == Iterate(img.frames, <<>>, <<>>)
                      IN  [ checked |-> path, opened |-> <<path>>,
                            result |-> Stack(out.images, out.masks) ]

\* ---------------------------------------------------------------- inputs
ParamNodes ==
    {"ParamString", "ParamInt", "ParamFloat", "ParamBoolean", "ParamUniversal"}

\* A Python int does not overflow: it is kept as a sign and base-65536
\* digits, least significant first.  The declared range of ParamInt is
\* 0 .. 0xffffffffffffffff.
PyInt(neg, limbs) == [neg |-> neg, limbs |-> limbs]
IntValues ==
    { PyInt(TRUE, <<1>>), PyInt(FALSE, <<0>>), PyInt(FALSE, <<1>>),
      PyInt(FALSE, <<65534, 65535, 65535, 65535>>),
      PyInt(FALSE, <<65535, 65535, 65535, 65535>>),
      PyInt(FALSE, <<0, 0, 0, 0, 1>>) }

\* Floats of ParamFloat in steps of 0.01, as hundredths; the declared range
\* is -100.0 .. 100.0.
FloatMin == 0 - 10000
FloatMax == 10000
FloatValues ==
    {FloatMin - 1, FloatMin, FloatMin + 1, 0, 100, FloatMax - 1, FloatMax,
     FloatMax + 1}

ValuesOf(node) ==
    CASE node = "ParamString"    -> {"", "a prompt\nof two lines"}
      [] node = "ParamInt"       -> IntValues
      [] node = "ParamFloat"     -> FloatValues
      [] node = "ParamBoolean"   -> BOOLEAN
      [] node = "ParamUniversal" -> {"None", "model.safetensors"}

\* Opaque MODEL objects of the host.
Models == {"model_1", "model_2"}

\* ----------------------------------------------------------------- state
\* Nothing has been called yet.
NoCall ==
    [ op |-> "none", node |-> "none", args |-> <<>>, checked |-> <<>>,
      opened |-> <<>>, result |-> Returned(<<>>) ]

\* Nothing has been kept for comparison yet.
NoneSaved ==
    [ op |-> "none", node |-> "none", args |-> <<>>, base_path |-> <<>>,
      files |-> <<>>, result |-> Returned(<<>>), repeated |-> FALSE ]

\* A disk holding file f at path p and nothing else.
Disk(p, f) == [q \in DiskPaths |-> IF q = p THEN f ELSE NoFile]

TypeOK ==
    /\ base_path \in Bases
    /\ DOMAIN files = DiskPaths
    /\ last.op \in {"none", "get_value", "switch", "load_image"}
    /\ saved.op \in {"none", "get_value", "switch", "load_image"}

\* The latest call made with the same node, arguments and environment as
\* the call kept in saved.
SameCall(call) ==
    /\ saved.op = call.op
    /\ saved.node = call.node
    /\ saved.args = call.args
    /\ saved.base_path = base_path
    /\ saved.files = files

\* keep: remember this call, with the environment it ran in, to compare
\* later calls with; otherwise note whether it repeats the remembered call.
Kept(call, keep) ==
    IF keep
    THEN [ op |-> call.op, node |-> call.node, args |-> call.args,
           base_path |-> base_path, files |-> files,
           result |-> call.result, repeated |-> FALSE ]
    ELSE IF SameCall(call) THEN [saved EXCEPT !.repeated = TRUE]
    ELSE saved

\* --------------------------------------------------------------- actions
GetValue(node, value, keep) ==
    /\ last' = [ op |-> "get_value", node |-> node, args |-> <<value>>,
                 checked |-> <<>>, opened |-> <<>>,
                 result |-> get_value(node, value) ]
    /\ saved' = Kept(last', keep)
    /\ UNCHANGED <<base_path, files>>

Switch(model_a, model_b, select_b, keep) ==
    /\ last' = [ op |-> "switch", node |-> "HelperModelSwitch",
                 args |-> <<model_a, model_b, select_b>>,
                 checked |-> <<>>, opened |-> <<>>,
                 result |-> switch(model_a, model_b, select_b) ]
    /\ saved' = Kept(last', keep)
    /\ UNCHANGED <<base_path, files>>

LoadImage(image_path, keep) ==
    /\ last' = [ op |-> "load_image", node |-> "ParamImage",
                 args |-> <<image_path>> ] @@ load_image(image_path)
    /\ saved' = Kept(last', keep)
    /\ UNCHANGED <<base_path, files>>

\* The host environment: a file is put at a path (replacing what the disk
\* held), the file is removed, the host is restarted from another base.
WriteFile(p, f) ==
    /\ files' = Disk(p, f)
    /\ files' # files
    /\ UNCHANGED <<base_path, last, saved>>

RemoveFile(p) ==
    /\ exists(p)
    /\ files' = [files EXCEPT ![p] = NoFile]
    /\ UNCHANGED <<base_path, last, saved>>

SetBase(b) ==
    /\ b # base_path
    /\ base_path' = b
    /\ UNCHANGED <<files, last, saved>>

\* -------------------------------------------------------- specifications
\* Every call on every environment: the environment is chosen at the start
\* from the whole catalogue and the nodes are called in any order.
Init ==
    /\ base_path \in Bases
    /\ files \in { Disk(p, f) : p \in DiskPaths, f \in FileCatalogue \cup {NoFile} }
    /\ last = NoCall
    /\ saved = NoneSaved

Next ==
    \/ \E node \in ParamNodes : \E value \in ValuesOf(node) :
          GetValue(node, value, FALSE)
    \/ \E a \in Models, b \in Models, sel \in BOOLEAN : Switch(a, b, sel, FALSE)
    \/ \E p \in InputPaths : LoadImage(p, FALSE)

Spec == Init /\ [][Next]_vars

\* Calls interleaved with changes of the environment, one call remembered
\* for comparison: a smaller world of files and arguments.
HostFiles ==
    { ImageFile(<<MkFrame("RGBA", 1, 2, 1), MkFrame("RGBA", 1, 2, 3)>>),
      ImageFile(<<MkFrame("RGB", 1, 2, 1), MkFrame("RGBA", 1, 2, 1)>>) }

HostNodes == {"ParamInt", "ParamUniversal"}

HostInit ==
    /\ base_path \in Bases
    /\ files = Disk(CHOOSE p \in DiskPaths : TRUE, NoFile)
    /\ last = NoCall
    /\ saved = NoneSaved

HostNext ==
    \/ \E node \in HostNodes, keep \in BOOLEAN :
          GetValue(node, CHOOSE v \in ValuesOf(node) : TRUE, keep)
    \/ \E sel \in BOOLEAN, keep \in BOOLEAN :
          Switch("model_1", "model_2", sel, keep)
    \/ \E p \in InputPaths, keep \in BOOLEAN : LoadImage(p, keep)
    \/ \E p \in DiskPaths, f \in HostFiles : WriteFile(p, f)
    \/ \E p \in DiskPaths : RemoveFile(p)
    \/ \E b \in Bases : SetBase(b)

HostSpec == HostInit /\ [][HostNext]_vars

\* ================================================================ claims
\* The path the latest load_image call has to work on: its input if that is
\* absolute, the base directory followed by its input otherwise.
ExpectedPath ==
    IF last.args[1][1] = "/" THEN last.args[1] ELSE base_path \o last.args[1]

\* The file the latest load_image call was pointed at.
Source == files[ExpectedPath]

Contains(msg, p) ==
    \E k \in 1..(Len(msg) - Len(p) + 1) : SubSeq(msg, k, k + Len(p) - 1) = p

LoadedImage == last.result.value[1]
LoadedMask == last.result.value[2]

\* A frame of Source once its orientation tag is applied.
Upright(k) == exif_transpose(Source.frames[k])

\* C1: switch(a, b, TRUE) returns exactly b, switch(a, b, FALSE) exactly a;
\* the result is one of the two inputs and the call never fails.
SwitchSelects ==
    last.op = "switch" =>
        /\ last.result.ok
        /\ Len(last.result.value) = 1
        /\ last.result.value[1] \in {last.args[1], last.args[2]}
        /\ (last.args[3] = TRUE => last.result.value[1] = last.args[2])
        /\ (last.args[3] = FALSE => last.result.value[1] = last.args[1])

SwitchSelectsWitness ==
    /\ last.op = "switch"
    /\ last.args[1] # last.args[2]
    /\ last.args[3] = TRUE
    /\ last.result.value = <<last.args[2]>>

\* C2: get_value(v) of every scalar parameter node returns the one-element
\* result (v,), also for v at, next to and outside the declared range, and
\* never fails.
GetValueIdentity ==
    last.op = "get_value" =>
        /\ last.result.ok
        /\ Len(last.result.value) = 1
        /\ last.result.value[1] = last.args[1]

GetValueIdentityWitness ==
    /\ last.op = "get_value"
    /\ last.node = "ParamFloat"
    /\ last.args[1] > FloatMax
    /\ last.result.value = <<FloatMax + 1>>

\* C3: load_image on an existing, decodable file of N >= 1 frames, whatever
\* the size and the bands of each frame, returns an image and a mask whose
\* first dimensions are both N.
FrameCountsAgree ==
    (last.op = "load_image" /\ Source.kind = "image") =>
        /\ last.result.ok
        /\ LoadedImage.shape[1] = Len(Source.frames)
        /\ LoadedMask.shape[1] = Len(Source.frames)

\* C4: load_image on a resolved path that does not exist raises the
\* missing-file error, its message containing the resolved path, before any
\* attempt to open a file; never a decode failure, never an output.
MissingFileRaisesFirst ==
    (last.op = "load_image" /\ Source.kind = "absent") =>
        /\ ~last.result.ok
        /\ last.result.value = <<>>
        /\ last.result.error = "FileNotFoundError"
        /\ Contains(last.result.message, ExpectedPath)
        /\ last.opened = <<>>

MissingFileRaisesFirstWitness ==
    /\ last.op = "load_image"
    /\ ~isabs(last.args[1])
    /\ Source.kind = "absent"
    /\ \E q \in DiskPaths : exists(q)
    /\ last.result.error = "FileNotFoundError"

\* C5: load_image on a single-frame image without alpha returns the mask of
\* shape (1, 64, 64), all zeros, whatever the height and width of the image.
OpaqueMaskDefault ==
    ( /\ last.op = "load_image"
      /\ Source.kind = "image"
      /\ Len(Source.frames) = 1
      /\ Source.frames[1].mode \in {"L", "RGB"} ) =>
        /\ last.result.ok
        /\ LoadedMask.shape = <<1, 64, 64>>
        /\ LoadedMask.data = << [r \in 1..64 |-> [c \in 1..64 |-> 0]] >>

OpaqueMaskDefaultWitness ==
    /\ last.op = "load_image"
    /\ Source.kind = "image"
    /\ Len(Source.frames) = 1
    /\ Source.frames[1].mode = "RGB"
    /\ Height(Source.frames[1].px) # Width(Source.frames[1].px)
    /\ last.result.ok
    /\ LoadedImage.shape[2] # LoadedImage.shape[3]
    /\ LoadedMask.shape = <<1, 64, 64>>

\* C6: load_image on a single-frame image with alpha returns a mask of the
\* height and width of the orientation-normalized frame with, per pixel,
\* mask = 1 - alpha / 255 (255 * mask = 255 - alpha): 0 where the pixel is
\* opaque, 1 where it is transparent, and always within [0, 1].
AlphaMaskIsOneMinusAlpha ==
    ( /\ last.op = "load_image"
      /\ Source.kind = "image"
      /\ Len(Source.frames) = 1
      /\ Source.frames[1].mode \in {"LA", "RGBA"} ) =>
        LET px == Upright(1).px
            a(r, c) == px[r][c][Len(px[r][c])]
        IN  /\ last.result.ok
            /\ LoadedMask.shape = <<1, Height(px), Width(px)>>
            /\ Len(LoadedMask.data) = 1
            /\ Len(LoadedMask.data[1]) = Height(px)
            /\ \A r \in 1..Height(px) :
                 /\ Len(LoadedMask.data[1][r]) = Width(px)
                 /\ \A c \in 1..Width(px) :
                      LET m == LoadedMask.data[1][r][c]
                      IN  /\ 255 * m = (255 - a(r, c)) * One
                          /\ 0 <= m /\ m <= One
                          /\ (a(r, c) = 255 => m = 0)
                          /\ (a(r, c) = 0 => m = One)

AlphaMaskIsOneMinusAlphaWitness ==
    /\ last.op = "load_image"
    /\ Source.kind = "image"
    /\ Len(Source.frames) = 1
    /\ Source.frames[1].mode = "RGBA"
    /\ Source.frames[1].exif = 6
    /\ Height(Source.frames[1].px) = 1
    /\ Width(Source.frames[1].px) = 2
    /\ last.result.ok
    /\ LoadedMask.shape = <<1, 2, 1>>
    /\ \E r \in 1..2 : LoadedMask.data[1][r][1] = 0
    /\ \E r \in 1..2 : LoadedMask.data[1][r][1] = One

\* C7: a relative input path is resolved to the base directory joined with
\* it, an absolute one is used unchanged; the existence test, the error
\* message and the file opened all use that one resolved path.
PathResolution ==
    last.op = "load_image" =>
        /\ last.checked = ExpectedPath
        /\ \A k \in 1..Len(last.opened) : last.opened[k] = ExpectedPath
        /\ (Source.kind # "absent" => last.opened = <<ExpectedPath>>)
        /\ (last.result.error = "FileNotFoundError" =>
              last.result.message =
                  <<"Image not found at path: ">> \o ExpectedPath)

PathResolutionWitness ==
    /\ last.op = "load_image"
    /\ ~isabs(last.args[1])
    /\ base_path = <<"/", "srv">>
    /\ last.checked = <<"/", "srv", "input", "a.png">>
    /\ last.opened = <<last.checked>>
    /\ last.result.ok

\* C8: on a multi-frame file, slice k of the image and slice k of the mask
\* both come from frame k in file order; no frame is dropped, duplicated or
\* reordered.
FramesInFileOrder ==
    ( /\ last.op = "load_image"
      /\ Source.kind = "image"
      /\ Len(Source.frames) > 1
      /\ last.result.ok ) =>
        /\ Len(LoadedImage.data) = Len(Source.frames)
        /\ Len(LoadedMask.data) = Len(Source.frames)
        /\ \A k \in 1..Len(Source.frames) :
             /\ LoadedImage.data[k] = ImageArray(convert_RGB(Upright(k))).data
             /\ LoadedMask.data[k] =
                  IF HasAlpha(Upright(k))
                  THEN AlphaMask(getchannel_A(Upright(k))).data
                  ELSE zeros(64, 64).data

FramesInFileOrderWitness ==
    /\ last.op = "load_image"
    /\ Source.kind = "image"
    /\ Len(Source.frames) = 2
    /\ HasAlpha(Source.frames[1])
    /\ last.result.ok
    /\ LoadedImage.data[1] # LoadedImage.data[2]
    /\ LoadedMask.data[1] # LoadedMask.data[2]

\* C9: the image returned is always of 4 dimensions (frames, height, width,
\* 3) and the mask of 3 (frames, h, w), also for a single frame, where the
\* result is what stacking the one-element lists would give (frames = 1).
OutputRanks ==
    ( /\ last.op = "load_image"
      /\ Source.kind = "image"
      /\ last.result.ok ) =>
        /\ Len(last.result.value) = 2
        /\ Len(LoadedImage.shape) = 4
        /\ LoadedImage.shape[1] = Len(Source.frames)
        /\ LoadedImage.shape[2] = Height(Upright(1).px)
        /\ LoadedImage.shape[3] = Width(Upright(1).px)
        /\ LoadedImage.shape[4] = 3
        /\ Len(LoadedMask.shape) = 3
        /\ LoadedMask.shape[1] = Len(Source.frames)
        /\ Len(LoadedImage.data) = LoadedImage.shape[1]
        /\ Len(LoadedMask.data) = LoadedMask.shape[1]
        /\ \A k \in 1..Len(Source.frames) :
             /\ Len(LoadedImage.data[k]) = LoadedImage.shape[2]
             /\ Len(LoadedImage.data[k][1]) = LoadedImage.shape[3]
             /\ Len(LoadedImage.data[k][1][1]) = LoadedImage.shape[4]
             /\ Len(LoadedMask.data[k]) = LoadedMask.shape[2]
             /\ Len(LoadedMask.data[k][1]) = LoadedMask.shape[3]
        /\ (Len(Source.frames) = 1 =>
              /\ LoadedImage = cat(<<FrameImage(Source.frames[1])>>)
              /\ LoadedMask = cat(<<FrameMask(Source.frames[1])>>))

OutputRanksWitness ==
    /\ last.op = "load_image"
    /\ Source.kind = "image"
    /\ Len(Source.frames) = 1
    /\ last.result.ok
    /\ LoadedImage.shape = <<1, 2, 1, 3>>
    /\ LoadedMask.shape = <<1, 64, 64>>

====
